---- MODULE Spec2Model ----
(***************************************************************************)
(* Model of label_studio/data_manager/managers.py: the query builder that  *)
(* turns a PrepareParams object (filters, ordering, selectedItems) into a  *)
(* filtered, ordered task queryset.                                        *)
(*                                                                         *)
(* Python values are tagged records: [t |-> "str", s |-> ...],             *)
(* [t |-> "int" / "float", n |-> ...], [t |-> "bool", b |-> ...],          *)
(* [t |-> "none"], [t |-> "datetime", n |-> ...] and the range object      *)
(* [t |-> "range", min |-> v, max |-> v].  A JSON key that a task's data   *)
(* does not hold reads as [t |-> "unset"].                                 *)
(* Field paths, operator names and ORM lookup keys are sequences of        *)
(* tokens ("filter:tasks:", "data.", "text"), so that replace() and        *)
(* startswith() are computed on them as the code computes them on strings. *)
(***************************************************************************)
EXTENDS Integers, Sequences, FiniteSets, TLC

VARIABLES tasks, only_undefined_field, prepare_params, call

vars == <<tasks, only_undefined_field, prepare_params, call>>

(***************************************************************************)
(* Bounds of the model.                                                    *)
(***************************************************************************)
NumTasks == 3
MaxBuilds == 2
MaxItems == 2

TaskIds == 1..NumTasks

(***************************************************************************)
(* Python values.                                                          *)
(***************************************************************************)
StrV(s) == [t |-> "str", s |-> s]
IntV(n) == [t |-> "int", n |-> n]
FloatV(n) == [t |-> "float", n |-> n]
BoolV(b) == [t |-> "bool", b |-> b]
NoneV == [t |-> "none"]
DateV(n) == [t |-> "datetime", n |-> n]
RangeV(lo, hi) == [t |-> "range", min |-> lo, max |-> hi]
UnsetV == [t |-> "unset"]

IsNumber(v) == v.t \in {"int", "float"}

\* bool(value): the truth value Python gives an object
Truthy(v) ==
    CASE v.t = "none" -> FALSE
      [] v.t = "str" -> v.s # ""
      [] v.t \in {"int", "float"} -> v.n # 0
      [] v.t = "bool" -> v.b
      [] OTHER -> TRUE

\* hasattr(_filter.value, 'max'): only the range object has the attribute
HasMax(v) == v.t = "range"

(***************************************************************************)
(* Strings as token sequences.                                             *)
(***************************************************************************)
\* s.replace(tok, "")
Remove(s, tok) == SelectSeq(s, LAMBDA x : x # tok)

\* s.replace(tok, new)
Replace(s, tok, new) == [i \in DOMAIN s |-> IF s[i] = tok THEN new ELSE s[i]]

\* s.startswith(tok)
StartsWith(s, tok) == Len(s) > 0 /\ s[1] = tok

\* s + suffix, the empty suffix adding nothing
Concat(s, suffix) == IF suffix = "" THEN s ELSE Append(s, suffix)

(***************************************************************************)
(* Coercions.  Every coercion returns [exc, v]: exc names the exception    *)
(* raised ("" when none is), v the value returned.                         *)
(***************************************************************************)
Ok(v) == [exc |-> "", v |-> v]
Raise(e, v) == [exc |-> e, v |-> v]

\* the strings float() parses, and what it parses them to
NumericStrings == {"0", "1", "5", "10", "15", "20"}
ParseFloat(s) ==
    CASE s = "0" -> 0 [] s = "1" -> 1 [] s = "5" -> 5 [] s = "10" -> 10 [] s = "15" -> 15
      [] s = "20" -> 20

\* float(value)
PyFloat(v) ==
    CASE v.t = "str" -> IF v.s \in NumericStrings THEN Ok(FloatV(ParseFloat(v.s)))
                        ELSE Raise("ValueError", v)
      [] v.t \in {"int", "float"} -> Ok(FloatV(v.n))
      [] v.t = "bool" -> Ok(FloatV(IF v.b THEN 1 ELSE 0))
      [] OTHER -> Raise("TypeError", v)

\* the strings that match DATETIME_FORMAT, and the instants they denote
DateStrings == {"2021-01-01T00:00:00.000000Z", "2021-01-02T00:00:00.000000Z"}
ParseDate(s) == IF s = "2021-01-01T00:00:00.000000Z" THEN 1 ELSE 2

\* datetime.strptime(value, DATETIME_FORMAT)
StrpTime(v) ==
    IF v.t # "str" THEN Raise("TypeError", v)
    ELSE IF v.s \in DateStrings THEN Ok(DateV(ParseDate(v.s)))
    ELSE Raise("ValueError", v)

\* str.lower()
Lower(s) ==
    CASE s = "True" -> "true" [] s = "YES" -> "yes" [] s = "False" -> "false" [] OTHER -> s

\* the strings the permissive string-to-bool rule takes for true
TrueStrings == {"1", "true", "yes"}

\* cast_bool_from_str(value): a string is true when its lower case is one of
\* TrueStrings and false otherwise; any other object is returned as it is
cast_bool_from_str(v) ==
    IF v.t = "str" THEN BoolV(Lower(v.s) \in TrueStrings) ELSE v

\* cast_value(_filter): coerces _filter.value in place; returns the filter as
\* the call leaves it, also when one of its coercions raises
cast_value(f) ==
    IF HasMax(f.value) THEN
        IF f.type \in {"Number", "Datetime"} THEN
            LET conv(x) == IF f.type = "Number" THEN PyFloat(x) ELSE StrpTime(x)
                lo == conv(f.value.min)
                hi == conv(f.value.max)
            IN  IF lo.exc # "" THEN Raise(lo.exc, f)
                ELSE IF hi.exc # ""
                THEN Raise(hi.exc, [f EXCEPT !.value = RangeV(lo.v, f.value.max)])
                ELSE Ok([f EXCEPT !.value = RangeV(lo.v, hi.v)])
        ELSE Ok(f)
    ELSE
        CASE f.type = "Number" ->
                LET r == PyFloat(f.value)
                IN  IF r.exc # "" THEN Raise(r.exc, f) ELSE Ok([f EXCEPT !.value = r.v])
          [] f.type = "Datetime" ->
                LET r == StrpTime(f.value)
                IN  IF r.exc # "" THEN Raise(r.exc, f) ELSE Ok([f EXCEPT !.value = r.v])
          [] f.type = "Boolean" -> Ok([f EXCEPT !.value = cast_bool_from_str(f.value)])
          [] OTHER -> Ok(f)

\* the patterns of the model that re.compile rejects
BadPatterns == {"[", "("}

\* faulty variant, for comparison: the pattern is never checked
Compiles_Always(v) == TRUE

\* re.compile(pattern=str(value)) succeeds
Compiles(v) == ~(v.t = "str" /\ v.s \in BadPatterns)

(***************************************************************************)
(* The operators registry and the field resolver.                          *)
(***************************************************************************)
operators ==
    (<<"equal">> :> "") @@ (<<"not_", "equal">> :> "") @@
    (<<"less">> :> "__lt") @@ (<<"greater">> :> "__gt") @@
    (<<"less_or_equal">> :> "__lte") @@ (<<"greater_or_equal">> :> "__gte") @@
    (<<"in">> :> "") @@ (<<"not_", "in">> :> "") @@
    (<<"empty">> :> "__isnull") @@
    (<<"contains">> :> "__icontains") @@ (<<"not_", "contains">> :> "__icontains") @@
    (<<"regex">> :> "__regex")

\* faulty variant, for comparison: an operator outside the registry gets the suffix of 'contains'
OperatorSuffix_DefaultContains(op) ==
    IF op \in DOMAIN operators THEN operators[op] ELSE "__icontains"

\* operators.get(operator, '')
OperatorSuffix(op) == IF op \in DOMAIN operators THEN operators[op] ELSE ""

\* settings.DATA_UNDEFINED_NAME
DATA_UNDEFINED_NAME == "$undefined$"

\* preprocess_field_name(raw_field_name, only_undefined_field)
preprocess_field_name(raw_field_name, ouf) ==
    LET field_name == Remove(raw_field_name, "filter:tasks:")
    IN  IF StartsWith(field_name, "data.")
        THEN IF ouf THEN <<"data__", DATA_UNDEFINED_NAME>>
             ELSE Replace(field_name, "data.", "data__")
        ELSE field_name

Counters == {<<"total_predictions">>, <<"total_annotations">>, <<"cancelled_annotations">>}

(***************************************************************************)
(* Q objects (django.db.models.Q) as the code builds them.  A node is      *)
(* [kind |-> "node", connector, negated, children], a keyword argument     *)
(* field=value is the leaf [kind |-> "leaf", key, value].                  *)
(***************************************************************************)
QNode(conn, neg, children) ==
    [kind |-> "node", connector |-> conn, negated |-> neg, children |-> children]
Leaf(key, value) == [kind |-> "leaf", key |-> key, value |-> value]

\* Q()
QEmpty == QNode("AND", FALSE, <<>>)

\* Q(**kwargs) and Q(*args): the children joined by AND
QOf(children) == QNode("AND", FALSE, children)

InSeq(x, s) == \E i \in DOMAIN s : s[i] = x

\* Q.add(data, conn_type), as filter_expression.add(q, conjunction) uses it
QAdd(self, data, conn) ==
    IF InSeq(data, self.children) THEN self
    ELSE IF self.connector = conn
    THEN IF ~data.negated /\ (data.connector = conn \/ Len(data.children) = 1)
         THEN [self EXCEPT !.children = self.children \o data.children]
         ELSE [self EXCEPT !.children = Append(self.children, data)]
    ELSE [self EXCEPT !.connector = conn, !.children = <<self, data>>]

\* ~Q(...)
QInvert(q) == [QAdd(QEmpty, q, "AND") EXCEPT !.negated = TRUE]

\* Q(...) | Q(...) and Q(...) & Q(...)
QCombine(a, b, conn) ==
    IF Len(b.children) = 0 THEN a
    ELSE IF Len(a.children) = 0 THEN b
    ELSE QAdd(QAdd(QNode(conn, FALSE, <<>>), a, conn), b, conn)

(***************************************************************************)
(* What a lookup matches.  A task is [id, total_annotations, data] with    *)
(* data a function from JSON keys to JSON values.                          *)
(***************************************************************************)
Lookups == {"__lt", "__gt", "__lte", "__gte", "__isnull", "__icontains", "__regex"}

KeyLookup(key) == IF key[Len(key)] \in Lookups THEN key[Len(key)] ELSE "exact"
KeyPath(key) == IF key[Len(key)] \in Lookups THEN SubSeq(key, 1, Len(key) - 1) ELSE key

IsJsonColumn(path) == Len(path) = 2 /\ path[1] = "data__"
IsCastColumn(path) == Len(path) = 2 /\ path[1] = "filter_"
IsModelColumn(path) == path \in {<<"id">>, <<"total_annotations">>}

JsonGet(task, k) == IF k \in DOMAIN task.data THEN task.data[k] ELSE UnsetV

\* Cast(KeyTextTransform(json_field, 'data'), output_field=FloatField()):
\* a missing key and a JSON null both read as SQL NULL
CastFloat(v) ==
    CASE IsNumber(v) -> FloatV(v.n)
      [] v.t = "str" /\ v.s \in NumericStrings -> FloatV(ParseFloat(v.s))
      [] OTHER -> UnsetV

\* the value of a column in a task
Column(path, task) ==
    CASE IsJsonColumn(path) -> JsonGet(task, path[2])
      [] IsCastColumn(path) ->
            CastFloat(JsonGet(task, IF path[2] = "undefined" THEN DATA_UNDEFINED_NAME ELSE path[2]))
      [] path = <<"id">> -> IntV(task.id)
      [] path = <<"total_annotations">> -> IntV(task.total_annotations)
      [] OTHER -> UnsetV

\* the strings of the model in collation order
Collation ==
    <<"", "(", "0", "1", "10", "15", "2", "20", "2021-01-01T00:00:00.000000Z",
      "2021-01-02T00:00:00.000000Z", "25", "5", "False", "True", "YES", "[", "a", "ab",
      "b", "false", "no", "true", "yes">>
TextRank(s) == CHOOSE i \in DOMAIN Collation : Collation[i] = s

NumText(n) ==
    CASE n = 0 -> "0" [] n = 1 -> "1" [] n = 2 -> "2" [] n = 5 -> "5" [] n = 10 -> "10"
      [] n = 15 -> "15" [] n = 20 -> "20" [] n = 25 -> "25" [] OTHER -> ""

\* the text of a value, as ->> and a cast to text give it; SQL NULL has none
HasText(v) == v.t \in {"str", "int", "float"}
TextOf(v) == IF v.t = "str" THEN v.s ELSE NumText(v.n)

ProperSubstrings ==
    {<<"ab", "a">>, <<"ab", "b">>, <<"10", "1">>, <<"10", "0">>, <<"15", "1">>,
     <<"15", "5">>, <<"20", "2">>, <<"20", "0">>, <<"25", "2">>, <<"25", "5">>,
     <<"true", "a">>, <<"false", "a">>}
Contains(hay, needle) == needle = "" \/ needle = hay \/ <<hay, needle>> \in ProperSubstrings

\* a number for the value compared with a numeric column (get_prep_value)
CanPrepNumber(v) ==
    v.t \in {"int", "float", "bool"} \/ (v.t = "str" /\ v.s \in NumericStrings)
PrepNumber(v) ==
    CASE v.t = "bool" -> IF v.b THEN 1 ELSE 0
      [] v.t = "str" -> ParseFloat(v.s)
      [] OTHER -> v.n

\* jsonb comparison: null < string < number < boolean, then by value
JsonRank(v) == CASE v.t = "none" -> 0 [] v.t = "str" -> 1 [] v.t = "bool" -> 3 [] OTHER -> 2
JsonOrd(v) ==
    CASE v.t = "str" -> TextRank(v.s)
      [] v.t = "bool" -> IF v.b THEN 1 ELSE 0
      [] v.t = "none" -> 0
      [] OTHER -> v.n

\* -1, 0, 1 as the column value is less than, equal to, greater than the value
Compare(path, c, v) ==
    LET a == IF IsJsonColumn(path) THEN <<JsonRank(c), JsonOrd(c)>> ELSE <<0, c.n>>
        b == IF IsJsonColumn(path) THEN <<JsonRank(v), JsonOrd(v)>> ELSE <<0, PrepNumber(v)>>
    IN  IF a[1] < b[1] \/ (a[1] = b[1] /\ a[2] < b[2]) THEN -1
        ELSE IF a = b THEN 0 ELSE 1

\* the exception the ORM raises when it prepares the value of the leaf
PrepError(leaf) ==
    LET path == KeyPath(leaf.key)
        lk == KeyLookup(leaf.key)
        v == leaf.value
    IN  IF ~(IsJsonColumn(path) \/ IsCastColumn(path) \/ IsModelColumn(path)) THEN "FieldError"
        ELSE IF lk \in {"__isnull", "__icontains", "__regex"} THEN ""
        ELSE IF IsJsonColumn(path)
        THEN IF v.t \in {"datetime", "range"} THEN "TypeError" ELSE ""
        ELSE IF v.t = "none" \/ CanPrepNumber(v) THEN ""
        ELSE IF v.t = "str" THEN "ValueError" ELSE "TypeError"

\* the leaf's lookup holds of the task
LeafHolds(leaf, task) ==
    LET path == KeyPath(leaf.key)
        lk == KeyLookup(leaf.key)
        c == Column(path, task)
        v == leaf.value
        d == Compare(path, c, v)
    IN  IF lk = "__isnull" THEN (c.t = "unset") = Truthy(v)
        ELSE IF lk = "__icontains"
        THEN HasText(c) /\ HasText(v) /\ Contains(Lower(TextOf(c)), Lower(TextOf(v)))
        ELSE IF lk = "__regex" THEN HasText(c) /\ HasText(v) /\ Contains(TextOf(c), TextOf(v))
        ELSE IF c.t = "unset" THEN FALSE
        ELSE IF v.t = "none" THEN c.t = "none"
        ELSE IF c.t = "none" THEN FALSE
        ELSE IF lk = "exact" THEN d = 0
        ELSE IF lk = "__lt" THEN d < 0
        ELSE IF lk = "__gt" THEN d > 0
        ELSE IF lk = "__lte" THEN d <= 0
        ELSE d >= 0

RECURSIVE Holds(_, _)
\* the Q object holds of the task; a child Q without children adds no condition
Holds(q, task) ==
    IF q.kind = "leaf" THEN LeafHolds(q, task)
    ELSE LET kids == SelectSeq(q.children, LAMBDA c : c.kind = "leaf" \/ Len(c.children) > 0)
             r == IF q.connector = "AND"
                  THEN \A i \in DOMAIN kids : Holds(kids[i], task)
                  ELSE \E i \in DOMAIN kids : Holds(kids[i], task)
         IN  IF Len(kids) = 0 THEN TRUE ELSE (r # q.negated)

RECURSIVE Leaves(_)
\* the leaves of a Q object, in the order the ORM resolves them
Leaves(q) ==
    IF q.kind = "leaf" THEN <<q>>
    ELSE IF Len(q.children) = 0 THEN <<>>
    ELSE Leaves(q.children[1]) \o Leaves([q EXCEPT !.children = Tail(q.children)])

\* the exception queryset.filter(q) raises, "" when it raises none
FilterError(q) ==
    LET errs == SelectSeq([i \in DOMAIN Leaves(q) |-> PrepError(Leaves(q)[i])],
                          LAMBDA e : e # "")
    IN  IF Len(errs) = 0 THEN "" ELSE errs[1]

(***************************************************************************)
(* apply_filters.  The loop state is [status, q, items]: status "run"      *)
(* while the loop goes on, "none" once queryset.none() is returned, or the *)
(* name of the exception raised; q is filter_expression; items are the     *)
(* filter items, which the loop rewrites in place.                         *)
(***************************************************************************)
OpEqual == <<"equal">>
OpNotEqual == <<"not_", "equal">>
OpIn == <<"in">>
OpNotIn == <<"not_", "in">>
OpEmpty == <<"empty">>
OpRegex == <<"regex">>

\* faulty variant, for comparison: the string special case without its is-null test
StringEmptyQ_NoIsNull(field_name, value) ==
    LET e == QOf(<<Leaf(field_name, StrV(""))>>)
        n == QOf(<<Leaf(field_name, NoneV)>>)
    IN  IF Truthy(value)
        THEN QOf(<<QCombine(e, n, "OR")>>)
        ELSE QOf(<<QCombine(QInvert(e), QInvert(n), "AND")>>)

\* the Q object of the string special case (lines 175-181)
StringEmptyQ(field_name, value) ==
    LET e == QOf(<<Leaf(field_name, StrV(""))>>)
        n == QOf(<<Leaf(field_name, NoneV)>>)
        u == QOf(<<Leaf(Append(field_name, "__isnull"), BoolV(TRUE))>>)
    IN  IF Truthy(value)
        THEN QOf(<<QCombine(QCombine(e, n, "OR"), u, "OR")>>)
        ELSE QOf(<<QCombine(QCombine(QInvert(e), QInvert(n), "AND"), QInvert(u), "AND")>>)

\* faulty variant, for comparison: the range without its upper edge
BetweenQ_Exclusive(field_name, value) ==
    QOf(<<Leaf(Append(field_name, "__gte"), value.min), Leaf(Append(field_name, "__lt"), value.max)>>)

\* Q(**{field__gte: value.min, field__lte: value.max})
BetweenQ(field_name, value) ==
    QOf(<<Leaf(Append(field_name, "__gte"), value.min), Leaf(Append(field_name, "__lte"), value.max)>>)

\* the body of the loop for one filter item past the skip test
FilterItem(st, i, ouf, conjunction) ==
    LET f0 == st.items[i]
        resolved == preprocess_field_name(f0.filter, ouf)
        field_name == IF resolved = <<"file_upload">> THEN <<"file_upload_field">> ELSE resolved
        clean_field_name ==
            IF f0.type = "Number" /\ StartsWith(field_name, "data__")
            THEN <<"filter_">> \o Replace(Remove(field_name, "data__"), DATA_UNDEFINED_NAME, "undefined")
            ELSE field_name
        f1 == IF clean_field_name \in Counters /\ f0.operator = OpEmpty
              THEN [f0 EXCEPT !.operator = IF Truthy(cast_bool_from_str(f0.value))
                                           THEN OpEqual ELSE OpNotEqual,
                              !.value = IntV(0)]
              ELSE f0
        with(f, status, q) == [status |-> status, q |-> q, items |-> [st.items EXCEPT ![i] = f]]
        add(f, q) == with(f, "run", QAdd(st.q, q, conjunction))
        \* lines 171-237, with cast == cast_value(_filter) where the code calls it
        emit(f, suffixed, cast) ==
            IF f.type \in {"String", "Unknown"} /\ f.operator = OpEmpty
            THEN add(f, StringEmptyQ(field_name, cast_bool_from_str(f.value)))
            ELSE IF f.operator = OpRegex /\ ~Compiles(f.value)
            THEN with(f, "none", st.q)
            ELSE IF f.operator \in {OpIn, OpNotIn}
            THEN IF cast.exc # "" THEN with(cast.v, cast.exc, st.q)
                 ELSE IF ~HasMax(cast.v.value) THEN with(cast.v, "AttributeError", st.q)
                 ELSE IF f.operator = OpIn THEN add(cast.v, BetweenQ(suffixed, cast.v.value))
                 ELSE add(cast.v, QInvert(BetweenQ(suffixed, cast.v.value)))
            ELSE IF f.operator = OpEmpty
            THEN IF Truthy(cast_bool_from_str(f.value))
                 THEN add(f, QOf(<<Leaf(suffixed, BoolV(TRUE))>>))
                 ELSE add(f, QInvert(QOf(<<Leaf(suffixed, BoolV(TRUE))>>)))
            ELSE IF cast.exc # "" THEN with(cast.v, cast.exc, st.q)
            ELSE IF StartsWith(f.operator, "not_")
            THEN add(cast.v, QInvert(QOf(<<Leaf(suffixed, cast.v.value)>>)))
            ELSE add(cast.v, QOf(<<Leaf(suffixed, cast.v.value)>>))
    IN  emit(f1, Concat(clean_field_name, OperatorSuffix(f1.operator)), cast_value(f1))

\* faulty variant, for comparison: only the routing prefix is tested
Skipped_PrefixOnly(f) == ~StartsWith(f.filter, "filter:tasks:")

\* the test that skips an item (line 144)
Skipped(f) == ~StartsWith(f.filter, "filter:tasks:") \/ ~Truthy(f.value)

RECURSIVE FilterLoop(_, _, _, _)
\* for _filter in filters.items
FilterLoop(st, i, ouf, conjunction) ==
    IF i > Len(st.items) \/ st.status # "run" THEN st
    ELSE IF Skipped(st.items[i]) THEN FilterLoop(st, i + 1, ouf, conjunction)
    ELSE FilterLoop(FilterItem(st, i, ouf, conjunction), i + 1, ouf, conjunction)

\* the float cast of a Number filter's JSON key fails in the storage engine:
\* some task holds text there that is no number
CastFails(q, queryset, table) ==
    \E i \in DOMAIN Leaves(q) : \E id \in queryset :
        LET path == KeyPath(Leaves(q)[i].key)
            v == JsonGet(table[id], IF path[2] = "undefined" THEN DATA_UNDEFINED_NAME ELSE path[2])
        IN  IsCastColumn(path) /\ v.t = "str" /\ v.s \notin NumericStrings

\* queryset.exists() and queryset.first().project.only_undefined_field
SampleFlag(queryset, flag) == queryset # {} /\ flag

\* apply_filters(queryset, filters): [status, ids, q, filters], status "ok" when
\* a queryset is returned, with ids its tasks and filters the object as left
apply_filters(queryset, filters, table, flag) ==
    IF filters.t = "none"
    THEN [status |-> "ok", ids |-> queryset, q |-> QEmpty, filters |-> filters]
    ELSE LET conjunction == IF filters.conjunction = "or" THEN "OR" ELSE "AND"
             \* what the call gives once the loop has ended in state st
             result(st, status, ids) ==
                 [status |-> status, ids |-> ids, q |-> st.q,
                  filters |-> [filters EXCEPT !.items = st.items]]
             filtered(st, error) ==
                 IF st.status = "none" THEN result(st, "ok", {})
                 ELSE IF st.status # "run" THEN result(st, st.status, {})
                 ELSE IF error # "" THEN result(st, error, {})
                 ELSE IF CastFails(st.q, queryset, table) THEN result(st, "DataError", {})
                 ELSE result(st, "ok", {id \in queryset : Holds(st.q, table[id])})
             after(st) == filtered(st, FilterError(st.q))
         IN  after(FilterLoop([status |-> "run", q |-> QEmpty, items |-> filters.items], 1,
                              SampleFlag(queryset, flag), conjunction))

(***************************************************************************)
(* apply_ordering.  An ordering element names a field, as in               *)
(* <<"tasks:", "-", "data.", "text">>.                                     *)
(***************************************************************************)
\* the value a task is sorted on: [null, k]
SortKey(field_name, task) ==
    IF StartsWith(field_name, "data__")
    THEN LET v == JsonGet(task, field_name[2])    \* KeyTextTransform(json_field, 'data')
         IN  IF HasText(v) THEN [null |-> FALSE, k |-> TextRank(TextOf(v))]
             ELSE [null |-> TRUE, k |-> 0]
    ELSE LET c == Column(field_name, task)
         IN  IF c.t \in {"unset", "none"} THEN [null |-> TRUE, k |-> 0]
             ELSE [null |-> FALSE, k |-> c.n]

\* faulty variant, for comparison: the storage engine's default null placement, first when descending
MayPrecede_DefaultNulls(a, b, ascending) ==
    IF ascending
    THEN (IF a.null THEN b.null ELSE b.null \/ a.k <= b.k)
    ELSE (IF b.null THEN a.null ELSE a.null \/ a.k >= b.k)

\* asc(nulls_last=True) / desc(nulls_last=True): a may come before b
MayPrecede(a, b, ascending) ==
    IF a.null THEN b.null
    ELSE b.null \/ (IF ascending THEN a.k <= b.k ELSE a.k >= b.k)

\* the enumerations of a set of task ids
Enumerations(ids) ==
    {s \in [1..Cardinality(ids) -> ids] : \A i, j \in DOMAIN s : i # j => s[i] # s[j]}

\* the field an ordering sorts on, and its direction (lines 85-101)
OrderingField(ordering, queryset, flag) ==
    LET stripped == Remove(ordering[1], "tasks:")
        ascending == ~StartsWith(stripped, "-")
        field_name == IF StartsWith(stripped, "-") THEN Tail(stripped) ELSE stripped
    IN  IF InSeq("data.", field_name)
        THEN [ascending |-> ascending,
              field |-> IF SampleFlag(queryset, flag)
                        THEN <<"data__", DATA_UNDEFINED_NAME>>
                        ELSE Replace(field_name, "data.", "data__")]
        ELSE [ascending |-> ascending, field |-> field_name]

\* apply_ordering(queryset, ordering): the sequences the ordered queryset may
\* evaluate to (the order of tasks with equal keys is the storage engine's)
apply_ordering(queryset, ordering, table, flag) ==
    LET o == IF Len(ordering) > 0 THEN OrderingField(ordering, queryset, flag)
             ELSE [ascending |-> TRUE, field |-> <<"id">>]
    IN  {s \in Enumerations(queryset) :
            \A i, j \in DOMAIN s :
                i < j => MayPrecede(SortKey(o.field, table[s[i]]),
                                    SortKey(o.field, table[s[j]]), o.ascending)}

(***************************************************************************)
(* TaskQuerySet.prepared                                                   *)
(***************************************************************************)
\* faulty variant, for comparison: the excluded branch tests the included set
Selected_SwappedSets(rows, selectedItems) ==
    IF selectedItems.t = "none" THEN rows
    ELSE IF selectedItems.all = FALSE /\ selectedItems.included # {}
    THEN SelectSeq(rows, LAMBDA id : id \in selectedItems.included)
    ELSE IF selectedItems.all = TRUE /\ selectedItems.excluded # {}
    THEN SelectSeq(rows, LAMBDA id : id \notin selectedItems.included)
    ELSE rows

\* faulty variant, for comparison: the included set is applied whatever "all" says
Selected_IgnoresAll(rows, selectedItems) ==
    IF selectedItems.t = "none" THEN rows
    ELSE IF selectedItems.included # {}
    THEN SelectSeq(rows, LAMBDA id : id \in selectedItems.included)
    ELSE IF selectedItems.all = TRUE /\ selectedItems.excluded # {}
    THEN SelectSeq(rows, LAMBDA id : id \notin selectedItems.excluded)
    ELSE rows

\* lines 260-271: the selection restriction on the ordered queryset
Selected(rows, selectedItems) ==
    IF selectedItems.t = "none" THEN rows
    ELSE IF selectedItems.all = FALSE /\ selectedItems.included # {}
    THEN SelectSeq(rows, LAMBDA id : id \in selectedItems.included)
    ELSE IF selectedItems.all = TRUE /\ selectedItems.excluded # {}
    THEN SelectSeq(rows, LAMBDA id : id \notin selectedItems.excluded)
    ELSE rows

\* the tasks of the project (lines 254-255)
ProjectTasks(project) ==
    IF project.t = "none" THEN TaskIds ELSE {id \in TaskIds : tasks[id].project = project.n}

\* prepared(prepare_params): one query build on the PrepareParams object.  The
\* record of the call keeps the argument as it was passed, what apply_filters
\* returned, the ordered queryset and the rows of the queryset returned.
Prepared ==
    /\ call.n < MaxBuilds
    /\ LET build(flt) ==
               /\ prepare_params' = [prepare_params EXCEPT !.filters = flt.filters]
               /\ IF flt.status # "ok"
                  THEN call' = [n |-> call.n + 1, args |-> prepare_params,
                                status |-> flt.status, q |-> flt.q, filtered |-> {},
                                ordered |-> <<>>, rows |-> <<>>]
                  ELSE \E ordered \in apply_ordering(flt.ids, prepare_params.ordering, tasks,
                                                      only_undefined_field) :
                          call' = [n |-> call.n + 1, args |-> prepare_params, status |-> "ok",
                                   q |-> flt.q, filtered |-> flt.ids, ordered |-> ordered,
                                   rows |-> Selected(ordered, prepare_params.selectedItems)]
       IN  build(apply_filters(ProjectTasks(prepare_params.project), prepare_params.filters,
                               tasks, only_undefined_field))
    /\ UNCHANGED <<tasks, only_undefined_field>>

Next == Prepared

(***************************************************************************)
(* The task tables and the PrepareParams objects the builds are run on.    *)
(***************************************************************************)
\* the rows a task table is made of: counters 0..2; text that is empty, null,
\* missing or not empty; numbers inside, on the edge of and outside a range
Rows ==
    <<[total_annotations |-> 0,
       data |-> [text |-> StrV(""), num |-> IntV(5)] @@ (DATA_UNDEFINED_NAME :> IntV(5))],
      [total_annotations |-> 1,
       data |-> [text |-> NoneV, num |-> IntV(10)] @@ (DATA_UNDEFINED_NAME :> NoneV)],
      [total_annotations |-> 2,
       data |-> [other |-> StrV("b")]],
      [total_annotations |-> 0,
       data |-> [text |-> StrV("a"), num |-> IntV(15)] @@ (DATA_UNDEFINED_NAME :> StrV("10"))],
      [total_annotations |-> 1,
       data |-> [text |-> StrV("ab"), num |-> NoneV] @@ (DATA_UNDEFINED_NAME :> StrV(""))]>>

\* task id gets row start + stride * id, counted round the rows
Table(start, stride) ==
    [id \in TaskIds |->
        LET r == Rows[((start + stride * id) % Len(Rows)) + 1]
        IN  [id |-> id, project |-> 1, total_annotations |-> r.total_annotations,
             data |-> r.data]]

Tables(strides) == {Table(start, stride) : start \in 0..(Len(Rows) - 1), stride \in strides}

FieldTotal == <<"filter:tasks:", "total_annotations">>
FieldText == <<"filter:tasks:", "data.", "text">>
FieldNum == <<"filter:tasks:", "data.", "num">>
FieldOther == <<"filter:annotations:", "result">>

Item(filter, operator, type, value) ==
    [filter |-> filter, operator |-> operator, type |-> type, value |-> value]

Types == {"Number", "Datetime", "Boolean", "String", "Unknown"}
UnknownOperators == {<<"like">>, <<"not_", "like">>}
OperatorNames == DOMAIN operators \cup UnknownOperators

FalsyValues == {NoneV, StrV(""), IntV(0), BoolV(FALSE)}
Values ==
    {StrV("true"), StrV("false"), StrV("10"), StrV("a"), StrV("["),
     StrV("2021-01-01T00:00:00.000000Z"), RangeV(StrV("1"), StrV("10")), StrV("")}

\* every filter item over the fields, operators, types and values of the model
Items ==
    {Item(f, o, ty, v) : f \in {FieldTotal, FieldText, FieldNum}, o \in OperatorNames,
                         ty \in Types, v \in Values}

\* the items that lists of several items are made of
ListItems ==
    {Item(FieldText, OpEmpty, "String", StrV("true")),
     Item(FieldText, OpEmpty, "Unknown", StrV("false")),
     Item(FieldTotal, OpEmpty, "String", StrV("true")),
     Item(FieldNum, OpIn, "Number", RangeV(StrV("1"), StrV("10"))),
     Item(FieldText, OpRegex, "String", StrV("[")),
     Item(FieldNum, OpEqual, "Number", StrV("a")),
     Item(FieldOther, OpEqual, "String", StrV("a"))}
    \cup {Item(FieldTotal, OpEqual, "Number", v) : v \in FalsyValues}

SeqsUpTo(S, n) == UNION {[1..k -> S] : k \in 0..n}

Filters(conjunction, items) == [t |-> "filters", conjunction |-> conjunction, items |-> items]

\* the filters of one item, and the filters of up to MaxItems items
ItemFilters == {Filters(c, <<x>>) : c \in {"and", "or"}, x \in Items}
ListFilters == {Filters(c, l) : c \in {"and", "or"}, l \in SeqsUpTo(ListItems, MaxItems)}

SelectedItems(all, included, excluded) ==
    [t |-> "selectedItems", all |-> all, included |-> included, excluded |-> excluded]

Params(project, filters, ordering, selectedItems) ==
    [project |-> project, filters |-> filters, ordering |-> ordering,
     selectedItems |-> selectedItems]

NoCall(p) ==
    [n |-> 0, args |-> p, status |-> "new", q |-> QEmpty, filtered |-> {},
     ordered |-> <<>>, rows |-> <<>>]

InitWith(paramsSet, strides) ==
    /\ tasks \in Tables(strides)
    /\ only_undefined_field \in BOOLEAN
    /\ prepare_params \in paramsSet
    /\ call = NoCall(prepare_params)

\* builds over every filter item, ordered by id, nothing selected
ItemParams == {Params(NoneV, f, <<>>, NoneV) : f \in ItemFilters}

Init == InitWith(ItemParams, {1})

Spec == Init /\ [][Next]_vars

\* builds over the lists of filter items, ordered by id, nothing selected
ListParams == {Params(NoneV, f, <<>>, NoneV) : f \in ListFilters}

InitList == InitWith(ListParams, {1})

SpecList == InitList /\ [][Next]_vars

OrdId == <<"tasks:", "id">>
OrdIdDesc == <<"tasks:", "-", "id">>
OrdText == <<"tasks:", "data.", "text">>
OrdTextDesc == <<"tasks:", "-", "data.", "text">>
OrdNumDesc == <<"-", "tasks:", "data.", "num">>
OrdTotal == <<"tasks:", "total_annotations">>
OrdTotalDesc == <<"tasks:", "-", "total_annotations">>

Orderings ==
    {<<>>, <<OrdIdDesc>>, <<OrdText>>, <<OrdTextDesc, OrdIdDesc>>, <<OrdNumDesc>>,
     <<OrdTotal>>, <<OrdTotalDesc, OrdId>>}

\* sets of ids to include or exclude: none, some, and one with an id no task has
IdSets == {{}, {2, 3}, {1, NumTasks + 1}}

Selections ==
    {NoneV} \cup {SelectedItems(a, i, e) : a \in BOOLEAN, i \in IdSets, e \in IdSets}

SelectFilters ==
    {NoneV,
     Filters("and", <<Item(FieldText, <<"contains">>, "String", StrV("a"))>>),
     Filters("or", <<Item(FieldTotal, OpEmpty, "Boolean", StrV("true")),
                     Item(FieldText, OpEmpty, "String", StrV("true"))>>),
     Filters("and", <<Item(FieldNum, OpNotIn, "Number", RangeV(StrV("1"), StrV("10")))>>)}

\* builds over every ordering and every selection, with and without a project
SelectParams ==
    {Params(p, f, o, sel) : p \in {NoneV, IntV(1)}, f \in SelectFilters, o \in Orderings,
                            sel \in Selections}

InitSelect == InitWith(SelectParams, {1, 2})

SpecSelect == InitSelect /\ [][Next]_vars

BadRegexItem == Item(FieldText, OpRegex, "String", StrV("["))

\* filter lists that hold an item whose regex does not compile
BadRegexLists ==
    {Filters(c, <<x>>) : c \in {"and", "or"},
                         x \in {y \in Items : y.operator = OpRegex /\ y.value = StrV("[")}}
    \cup {Filters(c, l) : c \in {"and", "or"},
                          l \in {m \in SeqsUpTo(ListItems, MaxItems) : InSeq(BadRegexItem, m)}}

RegexParams ==
    {Params(NoneV, f, o, sel) :
        f \in BadRegexLists,
        o \in {<<>>, <<OrdTextDesc>>, <<OrdTotal, OrdId>>},
        sel \in {NoneV, SelectedItems(FALSE, {2, 3}, {}), SelectedItems(TRUE, {}, {2})}}

InitRegex == InitWith(RegexParams, {1})

SpecRegex == InitRegex /\ [][Next]_vars

(***************************************************************************)
(* Vocabulary of the properties.  They are stated on the record of the     *)
(* last call: call.args is the PrepareParams object as it was passed.      *)
(***************************************************************************)
Range(s) == {s[i] : i \in DOMAIN s}

Built == call.n > 0
Returned == call.n > 0 /\ call.status = "ok"
HasFilters == call.args.filters.t = "filters"
ArgItems == call.args.filters.items
ArgConjunction == call.args.filters.conjunction

\* the value of the field a filter item names, read from the task itself
FieldValue(item, task) ==
    IF item.filter = FieldTotal THEN IntV(task.total_annotations)
    ELSE JsonGet(task, IF only_undefined_field THEN DATA_UNDEFINED_NAME ELSE item.filter[3])

\* what apply_filters returns for the item alone
Alone(item) == apply_filters(TaskIds, Filters(ArgConjunction, <<item>>), tasks, only_undefined_field)

\* the item adds a predicate of its own to the filter expression
Emits(item) ==
    /\ ~Skipped(item)
    /\ ~(item.operator = OpRegex /\ ~Compiles(item.value))
    /\ Alone(item).status = "ok"

\* the tasks in every (AND) or in some (OR) of the sets contrib(i)
Combined(contrib(_), n) ==
    IF ArgConjunction = "or"
    THEN {id \in TaskIds : \E i \in 1..n : id \in contrib(i)}
    ELSE {id \in TaskIds : \A i \in 1..n : id \in contrib(i)}

IsStringEmpty(item) ==
    /\ item.type \in {"String", "Unknown"}
    /\ item.operator = OpEmpty
    /\ StartsWith(item.filter, "filter:tasks:")
    /\ item.value \in {StrV("true"), StrV("false")}

IsCounterField(item) == Remove(item.filter, "filter:tasks:") \in Counters

\* the tasks whose field is the empty string, null or unset
EmptyTasks(item) ==
    {id \in TaskIds : FieldValue(item, tasks[id]) \in {StrV(""), NoneV, UnsetV}}

\* the set the claim gives the string-empty item
StringEmptySet(item) ==
    IF item.value = StrV("true") THEN EmptyTasks(item) ELSE TaskIds \ EmptyTasks(item)

\* the filter items are string-empty items (on the fields in scope) and items
\* that emit a predicate, and the result is the AND/OR combination of the
\* string-empty sets with what the other items return alone
StringEmptyHolds(inScope(_)) ==
    (Built /\ HasFilters
        /\ (\E i \in DOMAIN ArgItems : IsStringEmpty(ArgItems[i]) /\ inScope(ArgItems[i]))
        /\ (\A i \in DOMAIN ArgItems :
                \/ (IsStringEmpty(ArgItems[i]) /\ inScope(ArgItems[i]))
                \/ (~IsStringEmpty(ArgItems[i]) /\ Emits(ArgItems[i]))))
    => /\ call.status = "ok"
       /\ call.filtered =
            Combined(LAMBDA i : IF IsStringEmpty(ArgItems[i]) THEN StringEmptySet(ArgItems[i])
                                ELSE Alone(ArgItems[i]).ids,
                     Len(ArgItems))

\* C3 as stated: a String/Unknown 'empty' item on any prefixed field returns
\* the tasks whose field is "", null or unset (value "true") or their
\* complement (value "false"), alone and inside an AND/OR combination.
C3_StringEmptyAnyField == StringEmptyHolds(LAMBDA item : TRUE)

\* C3 amended: the same, for every prefixed field that is not one of the three
\* counters (on a counter the item is rewritten into equal 0 / not_equal 0
\* before the string special case is tested).
C3_StringEmpty == StringEmptyHolds(LAMBDA item : ~IsCounterField(item))

\* C3 witness: an OR of an 'empty' item on data.text with another item has
\* returned a task whose text is null, a task that has no text and that the
\* other item does not match, and a task whose text is not empty.
C3_Witness ==
    /\ Returned /\ HasFilters /\ ~only_undefined_field
    /\ Len(ArgItems) = 2 /\ ArgConjunction = "or"
    /\ ArgItems[1] = Item(FieldText, OpEmpty, "String", StrV("true"))
    /\ Emits(ArgItems[2])
    /\ \E a, b, c \in call.filtered :
          /\ JsonGet(tasks[a], "text") = NoneV
          /\ JsonGet(tasks[b], "text") = UnsetV
          /\ b \notin Alone(ArgItems[2]).ids
          /\ c \notin EmptyTasks(ArgItems[1])

\* the call was passed one filter item
OneItem == Built /\ HasFilters /\ Len(ArgItems) = 1
TheItem == ArgItems[1]

\* C4: an 'empty' item on a counter, whatever its declared type, returns the
\* tasks whose counter is 0 when its value coerces to true and the tasks whose
\* counter is not 0 when it coerces to false.
C4_CounterEmpty ==
    (OneItem /\ TheItem.filter = FieldTotal /\ TheItem.operator = OpEmpty
        /\ Truthy(TheItem.value))
    => /\ call.status = "ok"
       /\ call.filtered =
            IF Truthy(cast_bool_from_str(TheItem.value))
            THEN {id \in TaskIds : tasks[id].total_annotations = 0}
            ELSE {id \in TaskIds : tasks[id].total_annotations # 0}

\* the filters of the call without the items whose value is falsy
TruthyItems == SelectSeq(ArgItems, LAMBDA f : Truthy(f.value))

\* C5: apply_filters returns for the filters what it returns for the same
\* filters with every falsy-valued item removed, and the unfiltered task set
\* when every item is falsy-valued.
C5_FalsySkipped ==
    (Built /\ HasFilters)
    => LET ref == apply_filters(TaskIds, Filters(ArgConjunction, TruthyItems), tasks,
                                only_undefined_field)
       IN  /\ call.status = ref.status
           /\ call.filtered = ref.ids
           /\ (TruthyItems = <<>> => call.status = "ok" /\ call.filtered = TaskIds)

\* C5 witness: a build with a falsy-valued item before an item that filters
\* tasks out has returned some tasks and not others.
C5_Witness ==
    /\ Returned /\ HasFilters
    /\ Len(ArgItems) = 2 /\ ArgItems[1].value = IntV(0) /\ Emits(ArgItems[2])
    /\ call.filtered # {} /\ call.filtered # TaskIds

\* the number a task holds in the field of the item, if it holds one
HasNumber(item, task) == CastFloat(FieldValue(item, task)).t = "float"
NumberOf(item, task) == CastFloat(FieldValue(item, task)).n

InRange(item, task) ==
    /\ HasNumber(item, task)
    /\ PyFloat(item.value.min).v.n <= NumberOf(item, task)
    /\ NumberOf(item, task) <= PyFloat(item.value.max).v.n

IsNumberRange(item) ==
    /\ item.type = "Number" /\ HasMax(item.value)
    /\ StartsWith(item.filter, "filter:tasks:")

\* C6: a Number item with a range value returns, with 'in', exactly the tasks
\* whose field value v has min <= v <= max and, with 'not_in', no task whose
\* field value is in [min, max].
C6_NumberRange ==
    (OneItem /\ IsNumberRange(TheItem) /\ call.status = "ok")
    => /\ TheItem.operator = OpIn =>
            call.filtered = {id \in TaskIds : InRange(TheItem, tasks[id])}
       /\ TheItem.operator = OpNotIn =>
            \A id \in call.filtered : ~InRange(TheItem, tasks[id])

\* C6 witness: an 'in' build on data.num has returned a task whose number is
\* the max of the range and left out a task whose number is above it.
C6_Witness ==
    /\ OneItem /\ IsNumberRange(TheItem) /\ call.status = "ok"
    /\ TheItem.operator = OpIn /\ TheItem.filter = FieldNum /\ ~only_undefined_field
    /\ \E a \in call.filtered, b \in TaskIds \ call.filtered :
          /\ NumberOf(TheItem, tasks[a]) = PyFloat(TheItem.value.max).v.n
          /\ HasNumber(TheItem, tasks[b])

\* C8: a build leaves its PrepareParams as it was passed (every item's
\* operator, type and value, the conjunction, the ordering, the SelectedItems),
\* so that a second build with the same object over the same tasks returns
\* what the first returned.
C8_ParamsUnchanged ==
    Built
    => /\ prepare_params = call.args
       /\ LET again == apply_filters(ProjectTasks(prepare_params.project),
                                     prepare_params.filters, tasks, only_undefined_field)
          IN  again.status = call.status /\ again.ids = call.filtered

RECURSIVE Negations(_)
\* the number of negated nodes of a Q object
Negations(q) ==
    IF q.kind = "leaf" THEN 0
    ELSE IF Len(q.children) = 0 THEN (IF q.negated THEN 1 ELSE 0)
    ELSE Negations(q.children[1]) + Negations([q EXCEPT !.children = Tail(q.children)])

IsUnknownOperatorItem(item) ==
    /\ item.operator \notin DOMAIN operators
    /\ StartsWith(item.filter, "filter:tasks:")
    /\ Truthy(item.value)

\* the column an item's field resolves to
ResolvedColumn(item) ==
    IF item.filter = FieldTotal THEN <<"total_annotations">>
    ELSE IF item.type = "Number"
    THEN <<"filter_", IF only_undefined_field THEN "undefined" ELSE item.filter[3]>>
    ELSE <<"data__", IF only_undefined_field THEN DATA_UNDEFINED_NAME ELSE item.filter[3]>>

\* the build of an item with an operator the registry does not hold emits one
\* test of the resolved column against the coerced value, without a comparison
\* suffix and under as many negations as negated(item) says, and ends as the
\* build of the same item with the operator 'like' ends
UnknownOperatorHolds(negated(_), like(_)) ==
    (OneItem /\ IsUnknownOperatorItem(TheItem))
    => LET coerced == cast_value(TheItem)
           known == Alone([TheItem EXCEPT !.operator = like(TheItem)])
       IN  /\ call.status = known.status
           /\ call.filtered = known.ids
           /\ coerced.exc # "" => call.status = coerced.exc
           /\ coerced.exc = "" =>
                /\ Leaves(call.q) = <<Leaf(ResolvedColumn(TheItem), coerced.v.value)>>
                /\ Negations(call.q) = (IF negated(TheItem) THEN 1 ELSE 0)

\* C10 as stated: every operator name outside the registry makes the build
\* emit a plain, un-negated equality test and does not make it fail.
C10_UnknownOperatorEquality == UnknownOperatorHolds(LAMBDA item : FALSE, LAMBDA item : OpEqual)

\* C10 amended: an operator name outside the registry that does not start with
\* "not_" makes the build emit a plain equality test, as 'equal' does; one that
\* starts with "not_" makes it emit the negation of that test, as 'not_equal'
\* does; in neither case does the build fail because the operator is unknown.
C10_UnknownOperator ==
    UnknownOperatorHolds(LAMBDA item : StartsWith(item.operator, "not_"),
                         LAMBDA item : IF StartsWith(item.operator, "not_")
                                       THEN OpNotEqual ELSE OpEqual)

\* C10 witness: a build with the operator "like" on a counter has returned
\* some tasks and not others.
C10_Witness ==
    /\ OneItem /\ IsUnknownOperatorItem(TheItem) /\ call.status = "ok"
    /\ TheItem.operator = <<"like">>
    /\ call.filtered # {} /\ call.filtered # TaskIds

\* the rows are distinct and in the order they have in the ordered queryset
KeepsOrder(rows, ordered) ==
    /\ \A i, j \in DOMAIN rows : i # j => rows[i] # rows[j]
    /\ rows = SelectSeq(ordered, LAMBDA id : id \in Range(rows))

HasSelection == Returned /\ call.args.selectedItems.t = "selectedItems"
ArgSelection == call.args.selectedItems

\* C1: with {all: false, included: I}, I not empty, prepared returns exactly
\* the tasks the filters match whose id is in I; with {all: true, excluded: E},
\* E not empty, exactly those whose id is not in E; in both cases in the order
\* apply_ordering gave them.
C1_SelectionComposes ==
    HasSelection
    => /\ (ArgSelection.all = FALSE /\ ArgSelection.included # {}) =>
            /\ Range(call.rows) = call.filtered \cap ArgSelection.included
            /\ KeepsOrder(call.rows, call.ordered)
       /\ (ArgSelection.all = TRUE /\ ArgSelection.excluded # {}) =>
            /\ Range(call.rows) = call.filtered \ ArgSelection.excluded
            /\ KeepsOrder(call.rows, call.ordered)

\* C1 witness: a filtered build ordered by a data field has been narrowed by an
\* included set to two tasks, which are not in ascending order of id.
C1_Witness ==
    /\ HasSelection /\ HasFilters /\ call.args.ordering # <<>>
    /\ ArgSelection.all = FALSE /\ ArgSelection.included = {2, 3}
    /\ ~(call.filtered \subseteq ArgSelection.included)
    /\ call.rows = <<3, 2>>

\* C9 as stated: with all = false every returned task has its id in included,
\* for every included set, the empty set included; with all = true no returned
\* task has its id in excluded.
C9_AllowDenyAnySet ==
    HasSelection
    => /\ ArgSelection.all = FALSE => Range(call.rows) \subseteq ArgSelection.included
       /\ ArgSelection.all = TRUE => Range(call.rows) \cap ArgSelection.excluded = {}

\* C9 amended: with all = false and included not empty every returned task
\* has its id in included, and with included empty no restriction is applied
\* (every task of the ordered queryset is returned); with all = true no
\* returned task has its id in excluded.
C9_AllowDeny ==
    HasSelection
    => /\ (ArgSelection.all = FALSE /\ ArgSelection.included # {}) =>
            Range(call.rows) \subseteq ArgSelection.included
       /\ (ArgSelection.all = FALSE /\ ArgSelection.included = {}) =>
            call.rows = call.ordered
       /\ ArgSelection.all = TRUE => Range(call.rows) \cap ArgSelection.excluded = {}

\* C9 witness: a build with an included set has dropped a task that the
\* filters matched, and a build with an empty included set has returned tasks.
C9_Witness ==
    /\ HasSelection /\ ArgSelection.all = FALSE
    /\ \/ /\ ArgSelection.included = {2, 3}
          /\ call.rows # <<>> /\ ~(call.filtered \subseteq {2, 3})
       \/ /\ ArgSelection.included = {} /\ ArgSelection.excluded # {}
          /\ call.rows # <<>>

\* the first element of the ordering of the call
FirstOrdering == call.args.ordering[1]
Descending == InSeq("-", FirstOrdering)

\* the key the first ordering element sorts a task on, read from the task:
\* the text of the JSON key (of the undefined bucket when the project keeps
\* its data there), or the column; null when the task has no such value
OrderingKey(task) ==
    LET name == FirstOrdering[Len(FirstOrdering)]
    IN  IF InSeq("data.", FirstOrdering)
        THEN JsonGet(task, IF only_undefined_field THEN DATA_UNDEFINED_NAME ELSE name)
        ELSE IF name = "id" THEN IntV(task.id) ELSE IntV(task.total_annotations)
KeyIsNull(task) == OrderingKey(task).t \in {"none", "unset"}
KeyRank(task) ==
    IF InSeq("data.", FirstOrdering) THEN TextRank(TextOf(OrderingKey(task)))
    ELSE OrderingKey(task).n

\* C7: the ordered queryset is sorted on the first element of the ordering
\* alone, ascending or descending, with every task whose key is null (a task
\* that lacks the nested key included) after every task whose key is not null;
\* with an empty ordering it is sorted ascending by id.
C7_Ordering ==
    Returned
    => LET s == call.ordered
       IN  /\ Range(s) = call.filtered /\ Len(s) = Cardinality(call.filtered)
           /\ \A i, j \in DOMAIN s :
                i < j =>
                    IF call.args.ordering = <<>> THEN s[i] < s[j]
                    ELSE LET a == tasks[s[i]]
                             b == tasks[s[j]]
                         IN  /\ KeyIsNull(a) => KeyIsNull(b)
                             /\ (~KeyIsNull(a) /\ ~KeyIsNull(b)) =>
                                    IF Descending THEN KeyRank(a) >= KeyRank(b)
                                    ELSE KeyRank(a) <= KeyRank(b)

\* C7 witness: a descending ordering on data.text, given with a second element
\* -id, has put a task that lacks the key last, after a task that holds it, and
\* two tasks with equal keys in ascending order of id.
C7_Witness ==
    /\ Returned /\ call.args.ordering = <<OrdTextDesc, OrdIdDesc>> /\ ~only_undefined_field
    /\ Len(call.ordered) = NumTasks
    /\ JsonGet(tasks[call.ordered[NumTasks]], "text") = UnsetV
    /\ ~KeyIsNull(tasks[call.ordered[1]])
    /\ \E i \in 1..(NumTasks - 1) :
          /\ KeyIsNull(tasks[call.ordered[i]])
          /\ call.ordered[i] < call.ordered[i + 1]

IsBadRegex(item) ==
    /\ StartsWith(item.filter, "filter:tasks:")
    /\ Truthy(item.value)
    /\ item.operator = OpRegex
    /\ item.value.t = "str" /\ item.value.s \in BadPatterns

\* the loop of apply_filters gets to item i: no item before it ends the loop
Reached(i) ==
    FilterLoop([status |-> "run", q |-> QEmpty, items |-> SubSeq(ArgItems, 1, i - 1)], 1,
               only_undefined_field, IF ArgConjunction = "or" THEN "OR" ELSE "AND").status = "run"

\* C2: when apply_filters gets to a prefixed, truthy regex item whose pattern
\* does not compile, the query returns no record and raises nothing, whatever
\* the conjunction, the other items, the ordering and the SelectedItems.
C2_BadRegexEmpty ==
    (Built /\ HasFilters /\ \E i \in DOMAIN ArgItems : IsBadRegex(ArgItems[i]) /\ Reached(i))
    => call.status = "ok" /\ call.rows = <<>> /\ call.filtered = {}

\* C2 witness: an OR build whose first item matches tasks and whose second
\* item is the bad regex, with an ordering and a selection, has returned nothing.
C2_Witness ==
    /\ Returned /\ HasFilters /\ ArgConjunction = "or" /\ Len(ArgItems) = 2
    /\ IsBadRegex(ArgItems[2]) /\ Emits(ArgItems[1]) /\ Alone(ArgItems[1]).ids # {}
    /\ call.args.ordering # <<>> /\ call.args.selectedItems.t = "selectedItems"
    /\ call.rows = <<>>

====
